---- MODULE Spec2Model ----
(***************************************************************************)
(* A model of dicomancer: the frame image pipeline (image_pipeline.rs),    *)
(* the file loader (model/loader.rs) and the application's update loop     *)
(* (app.rs).                                                               *)
(*                                                                         *)
(* Text built with format! is a sequence of parts (string literals and     *)
(* rendered arguments), so that "the message names X" is a statement about *)
(* the parts.  Byte and sample buffers are sequences of naturals.          *)
(***************************************************************************)
EXTENDS Integers, Sequences, FiniteSets, Bags, TLC

(***************************************************************************)
(* Bounds of the model.                                                    *)
(***************************************************************************)
\* longest sample buffer enumerated from the sample values (the named
\* scenario buffers of the specification are added to these)
MaxLen == 3
\* largest frame count and largest requested frame index
MaxFrames == 1
\* most files the file dialogs hand over in one run, a cancelled dialog
\* counting as one
MaxPicked == 3

(***************************************************************************)
(* Machine integers.                                                       *)
(***************************************************************************)
\* u8::MAX, the opaque alpha and the top of the gray scale
U8Max == 255
\* u16::MAX
U16Max == 65535
\* 2^16: u32 values are split in two 16-bit halves to multiply them
Half32 == 65536
\* 2^23 and 2^24: an f32 significand m satisfies F32Hidden <= m < F32Top
F32Hidden == 8388608
F32Top == 16777216

Min2(a, b) == IF a <= b THEN a ELSE b
Max2(a, b) == IF a >= b THEN a ELSE b

RECURSIVE Pow2(_)
Pow2(n) == IF n = 0 THEN 1 ELSE 2 * Pow2(n - 1)

\* width * height on u32: the product modulo 2^32 and whether it overflowed.
\* Exact for operands whose low halves multiply below 2^31 and whose
\* wrapped product is below 2^31 (all the dimensions drawn below).
U32Mul(a, b) ==
    LET ah == a \div Half32
        al == a % Half32
        bh == b \div Half32
        bl == b % Half32
        low == al * bl
        cross == ah * bl + al * bh + (low \div Half32)
    IN  [overflow |-> (ah * bh > 0) \/ (cross >= Half32),
         wrapped |-> (cross % Half32) * Half32 + (low % Half32)]

\* u16::saturating_sub / u8::saturating_sub
saturating_sub(a, b) == IF a >= b THEN a - b ELSE 0

(***************************************************************************)
(* IEEE-754 binary32 arithmetic, as far as normalize_u16 uses it.  A       *)
(* positive f32 is [m, k]: the value m * 2^(-k) with F32Hidden <= m <      *)
(* F32Top.  Rounding is to nearest, ties to even.                          *)
(***************************************************************************)
F32Round(q, up, k) ==
    LET m == IF up THEN q + 1 ELSE q
    IN  IF m = F32Top THEN [m |-> F32Hidden, k |-> k - 1] ELSE [m |-> m, k |-> k]

\* long division, one quotient bit per step, until 24 significant bits
RECURSIVE F32DivBits(_, _, _, _)
F32DivBits(q, r, b, k) ==
    IF q >= F32Hidden
    THEN F32Round(q, (2 * r > b) \/ (2 * r = b /\ q % 2 = 1), k)
    ELSE LET bit == IF 2 * r >= b THEN 1 ELSE 0
         IN  F32DivBits(2 * q + bit, 2 * r - bit * b, b, k + 1)

\* (d as f32) / (b as f32) for integers 1 <= d, b <= U16Max (both exact in f32)
F32Div(d, b) == F32DivBits(d \div b, d % b, b, 0)

\* x * 255.0: the 32-bit product m * 255 is formed in two parts (hi * 256 + lo)
\* and rounded back to 24 bits
F32Mul255(x) ==
    LET a == x.m \div 256
        b == x.m % 256
        hi == a * U8Max + ((b * U8Max) \div 256)
        lo == (b * U8Max) % 256
    IN  IF hi >= F32Hidden
        THEN F32Round(hi, (lo > 128) \/ (lo = 128 /\ hi % 2 = 1), x.k - 8)
        ELSE LET q == 2 * hi + (lo \div 128)
                 rest == lo % 128
             IN  F32Round(q, (rest > 64) \/ (rest = 64 /\ q % 2 = 1), x.k - 7)

\* x.clamp(0.0, 255.0).round() as u8; f32::round rounds half away from zero
F32ClampRoundU8(x) ==
    IF x.k < 16 THEN U8Max
    ELSE IF x.k > 24 THEN 0
    ELSE LET unit == Pow2(x.k)
             whole == x.m \div unit
             frac == x.m % unit
             rounded == IF 2 * frac >= unit THEN whole + 1 ELSE whole
         IN  Min2(rounded, U8Max)

\* normalize_u16 with the degenerate range mapped to the top of the scale
normalize_u16_degenerate_full(value, min, max) ==
    IF max <= min THEN U8Max
    ELSE LET range == max - min
             d == saturating_sub(value, min)
         IN  IF d = 0 THEN 0
             ELSE F32ClampRoundU8(F32Mul255(F32Div(d, range)))

\* normalize_u16 with the value itself, cut to a byte, for the degenerate range
normalize_u16_degenerate_direct(value, min, max) ==
    IF max <= min THEN Min2(value, U8Max)
    ELSE LET range == max - min
             d == saturating_sub(value, min)
         IN  IF d = 0 THEN 0
             ELSE F32ClampRoundU8(F32Mul255(F32Div(d, range)))

\* normalize_u16 with a wrapping u16 subtraction in place of the saturating one
normalize_u16_wrapping(value, min, max) ==
    IF max <= min THEN 0
    ELSE LET range == max - min
             d == (value - min) % (U16Max + 1)
         IN  IF d = 0 THEN 0
             ELSE F32ClampRoundU8(F32Mul255(F32Div(d, range)))

normalize_u16(value, min, max) ==
    IF max <= min THEN 0
    ELSE LET range == max - min
             d == saturating_sub(value, min)
         IN  IF d = 0 THEN 0
             ELSE F32ClampRoundU8(F32Mul255(F32Div(d, range)))

(***************************************************************************)
(* The decoder's side of the pipeline (dicom::pixeldata, not part of the   *)
(* repository).  A decoded frame set is a record of what its accessors     *)
(* return; what to_vec_frame and to_dynamic_image answer during one call   *)
(* is the call's environment env, as is the build's overflow checking.     *)
(***************************************************************************)
PhotometricInterpretations == {"Monochrome1", "Monochrome2", "Rgb", "YbrFull"}
PlanarConfigurations == {"Standard", "PixelFirst"}
BitsAllocatedValues == {8, 16}
\* rows and columns are u32 in the decoder's interface
DimValues == {1, 2, Half32}

\* PhotometricInterpretation::is_monochrome
is_monochrome(photometric) == photometric \in {"Monochrome1", "Monochrome2"}

RECURSIVE SeqsOfLen(_, _)
SeqsOfLen(S, n) ==
    IF n = 0 THEN {<<>>}
    ELSE {Append(s, v) : s \in SeqsOfLen(S, n - 1), v \in S}
SeqsUpTo(S, n) == UNION {SeqsOfLen(S, k) : k \in 0..n}

\* 8-bit buffers: every buffer up to MaxLen over two values, and the
\* scenario buffers of the specification
SampleValues8 == {64, U8Max}
Buffers8 ==
    SeqsUpTo(SampleValues8, MaxLen)
        \cup {<<0, 64, 128, 255>>, <<10, 20, 30, 40, 50, 60>>}
\* 16-bit buffers; 33084 of 0..33149 is a sample whose scaled value the f32
\* arithmetic rounds onto a tie.  The last three are RGB frames that share a
\* channel with another buffer: of two pixels, and of one pixel followed by
\* a fourth sample.
SampleValues16 == {0, 33149}
Buffers16 ==
    SeqsUpTo(SampleValues16, MaxLen)
        \cup {<<1000, 3000>>, <<7, 7, 7, 7>>, <<0, 33084, 33149>>,
              <<10, 20, 30, 40, 50, 60>>, <<10, 20, 0, 40, 0, 65535>>,
              <<0, 0, 33149, 0>>, <<0, 0, 33149, 33149>>}

DecodedFrameSets ==
    [number_of_frames : 0..MaxFrames,
     rows : DimValues,
     columns : DimValues,
     bits_allocated : BitsAllocatedValues,
     photometric_interpretation : PhotometricInterpretations,
     planar_configuration : PlanarConfigurations]

\* to_vec_frame::<u8> / to_vec_frame::<u16>: an error, or the frame's samples
FrameErr == [ok |-> FALSE, samples |-> <<>>, cause |-> "frame data unavailable"]
FrameOk(samples) == [ok |-> TRUE, samples |-> samples, cause |-> ""]
FrameOutcomes(bits) ==
    {FrameErr} \cup
    {FrameOk(s) : s \in (IF bits <= 8 THEN Buffers8 ELSE Buffers16)}

\* to_dynamic_image followed by into_rgba8: an error, or an RGBA image that
\* carries its own dimensions
DynamicErr ==
    [ok |-> FALSE, width |-> 0, height |-> 0, raw |-> <<>>,
     cause |-> "no dynamic image"]
DynamicOk(w, h) ==
    [ok |-> TRUE, width |-> w, height |-> h,
     raw |-> [i \in 1..(4 * w * h) |-> IF i % 4 = 0 THEN U8Max ELSE 0],
     cause |-> ""]
DynamicOutcomes == {DynamicErr} \cup {DynamicOk(w, 1) : w \in 1..2}

Envs(decoded) ==
    [frame : FrameOutcomes(decoded.bits_allocated),
     dynamic : DynamicOutcomes,
     overflow_checks : BOOLEAN]

(***************************************************************************)
(* Results.  kind is "Ok", "Err" or "Panic"; an Ok result holds a handle   *)
(* (some) or Ok(None).  path and samples are the trace of the call: the    *)
(* conversion path it entered and the samples it materialized.             *)
(***************************************************************************)
NoSamples == [read |-> FALSE, buffer |-> <<>>]
Read(buffer) == [read |-> TRUE, buffer |-> buffer]

OkHandle(w, h, rgba, path, samples) ==
    [kind |-> "Ok", some |-> TRUE, width |-> w, height |-> h, pixels |-> rgba,
     err |-> <<>>, path |-> path, samples |-> samples]
OkNone ==
    [kind |-> "Ok", some |-> FALSE, width |-> 0, height |-> 0, pixels |-> <<>>,
     err |-> <<>>, path |-> "none", samples |-> NoSamples]
ErrText(text, path, samples) ==
    [kind |-> "Err", some |-> FALSE, width |-> 0, height |-> 0, pixels |-> <<>>,
     err |-> text, path |-> path, samples |-> samples]
Panicked(path) ==
    [kind |-> "Panic", some |-> FALSE, width |-> 0, height |-> 0,
     pixels |-> <<>>, err |-> <<>>, path |-> path, samples |-> NoSamples]

\* Result<Vec<u8>, String> of the buffer conversions
VecOk(rgba) == [ok |-> TRUE, rgba |-> rgba, err |-> <<>>]
VecErr(text) == [ok |-> FALSE, rgba |-> <<>>, err |-> text]

\* n pixels pushed in order, pixel idx being [Ch[idx,1], Ch[idx,2], Ch[idx,3], 255]
RgbaOf(n, Ch) ==
    [i \in 1..(4 * n) |->
        IF i % 4 = 0 THEN U8Max ELSE Ch[((i - 1) \div 4) + 1, i % 4]]

(***************************************************************************)
(* Normalization helpers                                                   *)
(***************************************************************************)
RECURSIVE min_max_fold(_, _, _)
min_max_fold(values, i, acc) ==
    IF i > Len(values) THEN acc
    ELSE min_max_fold(values, i + 1,
            IF ~acc.some
            THEN [some |-> TRUE, min |-> values[i], max |-> values[i]]
            ELSE [some |-> TRUE, min |-> Min2(acc.min, values[i]),
                  max |-> Max2(acc.max, values[i])])

min_max_u16(values) == min_max_fold(values, 1, [some |-> FALSE, min |-> 0, max |-> 0])

\* min_max_u16(..).unwrap_or((0, 0))
unwrap_or_zero(opt) ==
    IF opt.some THEN [min |-> opt.min, max |-> opt.max] ELSE [min |-> 0, max |-> 0]

(***************************************************************************)
(* Buffer conversions                                                      *)
(***************************************************************************)
\* rgb_interleaved_to_rgba without the length check: the whole triplets of
\* the buffer are converted and the remainder is dropped
rgb_interleaved_to_rgba_truncating(samples) ==
    VecOk(RgbaOf(Len(samples) \div 3,
                 [idx \in 1..(Len(samples) \div 3), c \in 1..3 |->
                     samples[3 * (idx - 1) + c]]))

\* rgb_interleaved_to_rgba reading every triplet as (B, G, R)
rgb_interleaved_to_rgba_bgr(samples) ==
    IF Len(samples) % 3 # 0
    THEN VecErr(<<"RGB buffer length ", ToString(Len(samples)),
                  " is not divisible by 3">>)
    ELSE VecOk(RgbaOf(Len(samples) \div 3,
                      [idx \in 1..(Len(samples) \div 3), c \in 1..3 |->
                          samples[3 * (idx - 1) + (4 - c)]]))

rgb_interleaved_to_rgba(samples) ==
    IF Len(samples) % 3 # 0
    THEN VecErr(<<"RGB buffer length ", ToString(Len(samples)),
                  " is not divisible by 3">>)
    ELSE VecOk(RgbaOf(Len(samples) \div 3,
                      [idx \in 1..(Len(samples) \div 3), c \in 1..3 |-> samples[3 * (idx - 1) + c]]))

\* rgb_planar_to_rgba_u8 reading the buffer as consecutive triplets
rgb_planar_to_rgba_u8_interleaved(samples, pixel_count) ==
    IF Len(samples) < pixel_count * 3
    THEN VecErr(<<"RGB buffer length ", ToString(Len(samples)),
                  " is too small for ", ToString(pixel_count), " pixels">>)
    ELSE VecOk(RgbaOf(pixel_count,
                      [idx \in 1..pixel_count, c \in 1..3 |->
                          samples[3 * (idx - 1) + c]]))

rgb_planar_to_rgba_u8(samples, pixel_count) ==
    IF Len(samples) < pixel_count * 3
    THEN VecErr(<<"RGB buffer length ", ToString(Len(samples)),
                  " is too small for ", ToString(pixel_count), " pixels">>)
    ELSE LET r_plane == SubSeq(samples, 1, pixel_count)
             rest == SubSeq(samples, pixel_count + 1, Len(samples))
             g_plane == SubSeq(rest, 1, pixel_count)
             b_plane == SubSeq(rest, pixel_count + 1, Len(rest))
         IN  IF Len(b_plane) < pixel_count
             THEN VecErr(<<"RGB buffer does not include all color planes">>)
             ELSE VecOk(RgbaOf(pixel_count,
                        [idx \in 1..(pixel_count), c \in 1..3 |-> IF c = 1 THEN r_plane[idx]
                                        ELSE IF c = 2 THEN g_plane[idx]
                                        ELSE b_plane[idx]]))

\* the running accumulators of one channel c over the triplets, from
\* (u16::MAX, u16::MIN)
RECURSIVE channel_min_max(_, _, _, _)
channel_min_max(samples, c, idx, acc) ==
    IF 3 * idx > Len(samples) THEN acc
    ELSE channel_min_max(samples, c, idx + 1,
            [min |-> Min2(acc.min, samples[3 * (idx - 1) + c]),
             max |-> Max2(acc.max, samples[3 * (idx - 1) + c])])

\* rgb_interleaved_u16_to_rgba with one minimum and maximum for the three
\* channels
rgb_interleaved_u16_to_rgba_shared_range(samples) ==
    IF Len(samples) % 3 # 0
    THEN VecErr(<<"RGB buffer length ", ToString(Len(samples)),
                  " is not divisible by 3">>)
    ELSE LET mm == unwrap_or_zero(min_max_u16(samples))
         IN  VecOk(RgbaOf(Len(samples) \div 3,
                          [idx \in 1..(Len(samples) \div 3), c \in 1..3 |->
                              normalize_u16(samples[3 * (idx - 1) + c],
                                            mm.min, mm.max)]))

rgb_interleaved_u16_to_rgba(samples) ==
    IF Len(samples) % 3 # 0
    THEN VecErr(<<"RGB buffer length ", ToString(Len(samples)),
                  " is not divisible by 3">>)
    ELSE LET mm == [c \in 1..3 |->
                      channel_min_max(samples, c, 1, [min |-> U16Max, max |-> 0])]
         IN  VecOk(RgbaOf(Len(samples) \div 3,
                   [idx \in 1..(Len(samples) \div 3), c \in 1..3 |-> normalize_u16(samples[3 * (idx - 1) + c],
                                                 mm[c].min, mm[c].max)]))

\* rgb_planar_u16_to_rgba with one minimum and maximum for the three planes
rgb_planar_u16_to_rgba_shared_range(samples, pixel_count) ==
    IF Len(samples) < pixel_count * 3
    THEN VecErr(<<"RGB buffer length ", ToString(Len(samples)),
                  " is too small for ", ToString(pixel_count), " pixels">>)
    ELSE LET mm == unwrap_or_zero(min_max_u16(samples))
         IN  VecOk(RgbaOf(pixel_count,
                          [idx \in 1..pixel_count, c \in 1..3 |->
                              normalize_u16(samples[(c - 1) * pixel_count + idx],
                                            mm.min, mm.max)]))

rgb_planar_u16_to_rgba(samples, pixel_count) ==
    IF Len(samples) < pixel_count * 3
    THEN VecErr(<<"RGB buffer length ", ToString(Len(samples)),
                  " is too small for ", ToString(pixel_count), " pixels">>)
    ELSE LET r_plane == SubSeq(samples, 1, pixel_count)
             rest == SubSeq(samples, pixel_count + 1, Len(samples))
             g_plane == SubSeq(rest, 1, pixel_count)
             b_plane == SubSeq(rest, pixel_count + 1, Len(rest))
             planes == <<r_plane, g_plane, b_plane>>
             mm == [c \in 1..3 |-> unwrap_or_zero(min_max_u16(planes[c]))]
         IN  IF Len(b_plane) < pixel_count
             THEN VecErr(<<"RGB buffer does not include all color planes">>)
             ELSE VecOk(RgbaOf(pixel_count,
                        [idx \in 1..(pixel_count), c \in 1..3 |-> normalize_u16(planes[c][idx],
                                                      mm[c].min, mm[c].max)]))

(***************************************************************************)
(* FrameImagePipeline                                                      *)
(***************************************************************************)
\* monochrome_to_handle with every bit depth rescaled by min and max
monochrome_to_handle_rescaling(decoded, frame_idx, env) ==
    LET width == decoded.columns
        height == decoded.rows
        invert == decoded.photometric_interpretation = "Monochrome1"
        samples == env.frame.samples
        mm == unwrap_or_zero(min_max_u16(samples))
        gray16(idx) == LET gray == normalize_u16(samples[idx], mm.min, mm.max)
                       IN  IF invert THEN U8Max - gray ELSE gray
    IN  IF ~env.frame.ok
        THEN ErrText(<<"Failed to materialize frame data: ", env.frame.cause>>,
                     "monochrome", NoSamples)
        ELSE OkHandle(width, height,
                      RgbaOf(Len(samples), [idx \in 1..(Len(samples)), c \in 1..3 |-> gray16(idx)]),
                      "monochrome", Read(samples))

\* monochrome_to_handle inverting under every interpretation
monochrome_to_handle_inverting_all(decoded, frame_idx, env) ==
    LET width == decoded.columns
        height == decoded.rows
        invert == TRUE
        samples == env.frame.samples
        mm == unwrap_or_zero(min_max_u16(samples))
        gray8(idx) == IF invert THEN saturating_sub(U8Max, samples[idx])
                      ELSE samples[idx]
        gray16(idx) == LET gray == normalize_u16(samples[idx], mm.min, mm.max)
                       IN  IF invert THEN U8Max - gray ELSE gray
    IN  IF ~env.frame.ok
        THEN ErrText(<<"Failed to materialize frame data: ", env.frame.cause>>,
                     "monochrome", NoSamples)
        ELSE IF decoded.bits_allocated <= 8
        THEN OkHandle(width, height,
                      RgbaOf(Len(samples), [idx \in 1..(Len(samples)), c \in 1..3 |-> gray8(idx)]),
                      "monochrome", Read(samples))
        ELSE OkHandle(width, height,
                      RgbaOf(Len(samples), [idx \in 1..(Len(samples)), c \in 1..3 |-> gray16(idx)]),
                      "monochrome", Read(samples))

\* monochrome_to_handle inverting under no interpretation
monochrome_to_handle_uninverted(decoded, frame_idx, env) ==
    LET width == decoded.columns
        height == decoded.rows
        invert == FALSE
        samples == env.frame.samples
        mm == unwrap_or_zero(min_max_u16(samples))
        gray8(idx) == IF invert THEN saturating_sub(U8Max, samples[idx])
                      ELSE samples[idx]
        gray16(idx) == LET gray == normalize_u16(samples[idx], mm.min, mm.max)
                       IN  IF invert THEN U8Max - gray ELSE gray
    IN  IF ~env.frame.ok
        THEN ErrText(<<"Failed to materialize frame data: ", env.frame.cause>>,
                     "monochrome", NoSamples)
        ELSE IF decoded.bits_allocated <= 8
        THEN OkHandle(width, height,
                      RgbaOf(Len(samples), [idx \in 1..(Len(samples)), c \in 1..3 |-> gray8(idx)]),
                      "monochrome", Read(samples))
        ELSE OkHandle(width, height,
                      RgbaOf(Len(samples), [idx \in 1..(Len(samples)), c \in 1..3 |-> gray16(idx)]),
                      "monochrome", Read(samples))

monochrome_to_handle(decoded, frame_idx, env) ==
    LET width == decoded.columns
        height == decoded.rows
        invert == decoded.photometric_interpretation = "Monochrome1"
        samples == env.frame.samples
        mm == unwrap_or_zero(min_max_u16(samples))
        gray8(idx) == IF invert THEN saturating_sub(U8Max, samples[idx])
                      ELSE samples[idx]
        gray16(idx) == LET gray == normalize_u16(samples[idx], mm.min, mm.max)
                       IN  IF invert THEN U8Max - gray ELSE gray
    IN  IF ~env.frame.ok
        THEN ErrText(<<"Failed to materialize frame data: ", env.frame.cause>>,
                     "monochrome", NoSamples)
        ELSE IF decoded.bits_allocated <= 8
        THEN OkHandle(width, height,
                      RgbaOf(Len(samples), [idx \in 1..(Len(samples)), c \in 1..3 |-> gray8(idx)]),
                      "monochrome", Read(samples))
        ELSE OkHandle(width, height,
                      RgbaOf(Len(samples), [idx \in 1..(Len(samples)), c \in 1..3 |-> gray16(idx)]),
                      "monochrome", Read(samples))

rgb_to_handle(decoded, frame_idx, env) ==
    LET width == decoded.columns
        height == decoded.rows
        product == U32Mul(width, height)
        pixel_count == product.wrapped
        samples == env.frame.samples
        standard == decoded.planar_configuration = "Standard"
        rgba == IF decoded.bits_allocated <= 8
                THEN IF standard THEN rgb_interleaved_to_rgba(samples)
                     ELSE rgb_planar_to_rgba_u8(samples, pixel_count)
                ELSE IF standard THEN rgb_interleaved_u16_to_rgba(samples)
                     ELSE rgb_planar_u16_to_rgba(samples, pixel_count)
    IN  IF product.overflow /\ env.overflow_checks
        THEN Panicked("rgb")
        ELSE IF ~env.frame.ok
        THEN ErrText(<<"Failed to materialize RGB frame: ", env.frame.cause>>,
                     "rgb", NoSamples)
        ELSE IF ~rgba.ok
        THEN ErrText(rgba.err, "rgb", Read(samples))
        ELSE OkHandle(width, height, rgba.rgba, "rgb", Read(samples))

\* (the message quotes the interpretation; the quote marks are left out)
fallback_to_dynamic(decoded, frame_idx, interpretation, env) ==
    IF ~env.dynamic.ok
    THEN ErrText(<<"Unsupported photometric interpretation ", interpretation,
                   ": ", env.dynamic.cause>>, "fallback", NoSamples)
    ELSE OkHandle(env.dynamic.width, env.dynamic.height, env.dynamic.raw,
                  "fallback", NoSamples)

\* frame_to_handle with the range check off by one: the index equal to the
\* frame count is let through
frame_to_handle_inclusive(decoded, frame_idx, env) ==
    IF frame_idx > decoded.number_of_frames
    THEN ErrText(<<"Requested frame ", ToString(frame_idx), ", but only ",
                   ToString(decoded.number_of_frames),
                   " frame(s) are available">>, "none", NoSamples)
    ELSE IF is_monochrome(decoded.photometric_interpretation)
    THEN monochrome_to_handle(decoded, frame_idx, env)
    ELSE IF decoded.photometric_interpretation = "Rgb"
    THEN rgb_to_handle(decoded, frame_idx, env)
    ELSE fallback_to_dynamic(decoded, frame_idx,
                             decoded.photometric_interpretation, env)

\* frame_to_handle with the RGB arm behind the catch-all arm
frame_to_handle_rgb_shadowed(decoded, frame_idx, env) ==
    IF frame_idx >= decoded.number_of_frames
    THEN ErrText(<<"Requested frame ", ToString(frame_idx), ", but only ",
                   ToString(decoded.number_of_frames),
                   " frame(s) are available">>, "none", NoSamples)
    ELSE IF is_monochrome(decoded.photometric_interpretation)
    THEN monochrome_to_handle(decoded, frame_idx, env)
    ELSE fallback_to_dynamic(decoded, frame_idx,
                             decoded.photometric_interpretation, env)

frame_to_handle(decoded, frame_idx, env) ==
    IF frame_idx >= decoded.number_of_frames
    THEN ErrText(<<"Requested frame ", ToString(frame_idx), ", but only ",
                   ToString(decoded.number_of_frames),
                   " frame(s) are available">>, "none", NoSamples)
    ELSE IF is_monochrome(decoded.photometric_interpretation)
    THEN monochrome_to_handle(decoded, frame_idx, env)
    ELSE IF decoded.photometric_interpretation = "Rgb"
    THEN rgb_to_handle(decoded, frame_idx, env)
    ELSE fallback_to_dynamic(decoded, frame_idx,
                             decoded.photometric_interpretation, env)

\* an object is what decode_pixel_data answers for it
NoDecoded ==
    [number_of_frames |-> 0, rows |-> 1, columns |-> 1, bits_allocated |-> 8,
     photometric_interpretation |-> "Monochrome2",
     planar_configuration |-> "Standard"]
DecodeErr == [decode_ok |-> FALSE, decoded |-> NoDecoded, cause |-> "no pixel data"]
DecodeOk(decoded) == [decode_ok |-> TRUE, decoded |-> decoded, cause |-> ""]
Objects == {DecodeErr} \cup {DecodeOk(d) : d \in DecodedFrameSets}

\* render_first_frame without the empty state: zero frames reach the
\* conversion
render_first_frame_no_empty(object, env) ==
    IF ~object.decode_ok
    THEN ErrText(<<"Failed to decode pixel data: ", object.cause>>,
                 "none", NoSamples)
    ELSE frame_to_handle(object.decoded, 0, env)

render_first_frame(object, env) ==
    IF ~object.decode_ok
    THEN ErrText(<<"Failed to decode pixel data: ", object.cause>>,
                 "none", NoSamples)
    ELSE IF object.decoded.number_of_frames = 0
    THEN OkNone
    ELSE frame_to_handle(object.decoded, 0, env)

(***************************************************************************)
(* utils/formatting.rs and model/loader.rs.  A file is what open_file and  *)
(* the object's accessors answer for its path; identifiers are sequences   *)
(* of characters, so that trimming is a computation.                       *)
(***************************************************************************)
HexDigits == <<"0", "1", "2", "3", "4", "5", "6", "7", "8", "9",
               "A", "B", "C", "D", "E", "F">>
\* {:04X} of a u16
Hex4(n) ==
    <<HexDigits[((n \div 4096) % 16) + 1], HexDigits[((n \div 256) % 16) + 1],
      HexDigits[((n \div 16) % 16) + 1], HexDigits[(n % 16) + 1]>>

format_tag(tag) == Hex4(tag.group) \o <<",">> \o Hex4(tag.element)

\* value_to_string for the values the files below hold: an empty primitive
\* value, a primitive string shorter than MAX_VALUE_LEN, and a sequence
value_to_string(value) ==
    IF value.kind = "Sequence"
    THEN <<"Sequence (", ToString(value.count), " item",
           IF value.count = 1 THEN "" ELSE "s", ")">>
    ELSE IF value.kind = "Empty" THEN <<"(empty)">>
    ELSE <<value.text>>

Unknown == <<"U", "n", "k", "n", "o", "w", "n">>
IsSpace(c) == c = " "
RECURSIVE trim_start(_)
trim_start(t) == IF t # <<>> /\ IsSpace(Head(t)) THEN trim_start(Tail(t)) ELSE t
RECURSIVE trim_end(_)
trim_end(t) ==
    IF t # <<>> /\ IsSpace(t[Len(t)]) THEN trim_end(SubSeq(t, 1, Len(t) - 1)) ELSE t
trim(t) == trim_end(trim_start(t))

NoText == [some |-> FALSE, text |-> <<>>]
SomeText(t) == [some |-> TRUE, text |-> t]

\* element_by_name(name).ok().and_then(to_str).map(trim).filter(non-empty)
attribute_text(file, name) ==
    LET attribute == file.attributes[name]
    IN  IF ~attribute.some THEN NoText
        ELSE IF trim(attribute.text) = <<>> THEN NoText
        ELSE SomeText(trim(attribute.text))

unwrap_or_unknown(opt) == IF opt.some THEN opt.text ELSE Unknown

NoHandle == [some |-> FALSE, width |-> 0, height |-> 0, pixels |-> <<>>]
SomeHandle(r) ==
    [some |-> TRUE, width |-> r.width, height |-> r.height, pixels |-> r.pixels]

LogLine(level, text) == [level |-> level, text |-> text]

\* extract_image_handle with a failed preview replaced by an empty image
extract_image_handle_placeholder(file) ==
    LET rendered == render_first_frame(file.object, file.env)
    IN  IF rendered.kind = "Ok"
        THEN [image |-> IF rendered.some THEN SomeHandle(rendered) ELSE NoHandle,
              log |-> <<>>]
        ELSE [image |-> [some |-> TRUE, width |-> 0, height |-> 0,
                         pixels |-> <<>>],
              log |-> <<LogLine("warn",
                     <<"Unable to build frame preview: ">> \o rendered.err)>>]

\* the image of the entry and what is logged on the way (a panic of the
\* pipeline does not return and is not one of the files below)
extract_image_handle(file) ==
    LET rendered == render_first_frame(file.object, file.env)
    IN  IF rendered.kind = "Ok"
        THEN [image |-> IF rendered.some THEN SomeHandle(rendered) ELSE NoHandle,
              log |-> <<>>]
        ELSE [image |-> NoHandle,
              log |-> <<LogLine("warn",
                     <<"Unable to build frame preview: ">> \o rendered.err)>>]

metadata_rows(file) ==
    [i \in DOMAIN file.elements |->
        LET element == file.elements[i]
        IN  [tag |-> format_tag(element.tag),
             vr |-> element.vr,
             alias |-> IF element.alias.some THEN element.alias.text
                       ELSE "Unknown",
             value |-> value_to_string(element.value)]]

NoEntry ==
    [patient_id |-> <<>>, study_instance_uid |-> <<>>,
     series_instance_uid |-> <<>>, sop_instance_uid |-> <<>>,
     view |-> [file_path |-> "", metadata |-> <<>>, image |-> NoHandle]]

LoadErr(text, log) == [ok |-> FALSE, entry |-> NoEntry, err |-> text, log |-> log]
LoadOk(entry, log) == [ok |-> TRUE, entry |-> entry, err |-> <<>>, log |-> log]

OpenFailure(file) ==
    <<file.path, ": failed to open DICOM file (", file.open_cause, ")">>

\* load_dicom with a failed preview propagated as the file's error
load_dicom_aborting(file) ==
    LET info == LogLine("info", <<"Loading DICOM file: ", file.path>>)
        rendered == render_first_frame(file.object, file.env)
        extracted == extract_image_handle(file)
    IN  IF ~file.open_ok
        THEN LoadErr(OpenFailure(file),
                     <<info, LogLine("error", OpenFailure(file))>>)
        ELSE IF rendered.kind # "Ok"
        THEN LoadErr(rendered.err, <<info>>)
        ELSE LoadOk(
               [patient_id |-> unwrap_or_unknown(attribute_text(file, "PatientID")),
                study_instance_uid |->
                    unwrap_or_unknown(attribute_text(file, "StudyInstanceUID")),
                series_instance_uid |->
                    unwrap_or_unknown(attribute_text(file, "SeriesInstanceUID")),
                sop_instance_uid |->
                    unwrap_or_unknown(attribute_text(file, "SOPInstanceUID")),
                view |-> [file_path |-> file.path,
                          metadata |-> metadata_rows(file),
                          image |-> extracted.image]],
               <<info>> \o extracted.log)

\* the result of load_dicom(path) and the lines it logs
load_dicom(file) ==
    LET info == LogLine("info", <<"Loading DICOM file: ", file.path>>)
        extracted == extract_image_handle(file)
    IN  IF ~file.open_ok
        THEN LoadErr(OpenFailure(file),
                     <<info, LogLine("error", OpenFailure(file))>>)
        ELSE LoadOk(
               [patient_id |-> unwrap_or_unknown(attribute_text(file, "PatientID")),
                study_instance_uid |->
                    unwrap_or_unknown(attribute_text(file, "StudyInstanceUID")),
                series_instance_uid |->
                    unwrap_or_unknown(attribute_text(file, "SeriesInstanceUID")),
                sop_instance_uid |->
                    unwrap_or_unknown(attribute_text(file, "SOPInstanceUID")),
                view |-> [file_path |-> file.path,
                          metadata |-> metadata_rows(file),
                          image |-> extracted.image]],
               <<info>> \o extracted.log)

(***************************************************************************)
(* The files of the model, by path.                                        *)
(***************************************************************************)
Absent == NoText
Attr(t) == SomeText(t)
Element(group, element, vr, alias, value) ==
    [tag |-> [group |-> group, element |-> element], vr |-> vr,
     alias |-> alias, value |-> value]
Str(text) == [kind |-> "Str", text |-> text, count |-> 0]
PatientElements ==
    <<Element(16, 32, "LO", [some |-> TRUE, text |-> "PatientID"], Str("P1")),
      Element(9, 4097, "UN", [some |-> FALSE, text |-> ""],
              [kind |-> "Empty", text |-> "", count |-> 0])>>
Ids(patient, study, series, sop) ==
    [PatientID |-> patient, StudyInstanceUID |-> study,
     SeriesInstanceUID |-> series, SOPInstanceUID |-> sop]
Frame1(rows, columns, bits, photometric, planar) ==
    DecodeOk([number_of_frames |-> 1, rows |-> rows, columns |-> columns,
              bits_allocated |-> bits, photometric_interpretation |-> photometric,
              planar_configuration |-> planar])
EnvOf(frame, dynamic) ==
    [frame |-> frame, dynamic |-> dynamic, overflow_checks |-> FALSE]
DicomFile(path, attributes, elements, obj, env) ==
    [path |-> path, open_ok |-> TRUE, open_cause |-> "",
     attributes |-> attributes, elements |-> elements, object |-> obj,
     env |-> env]

Paths == {"missing.dcm", "report.dcm", "mono.dcm", "rgb.dcm", "ybr.dcm"}
Files ==
    [path \in Paths |->
       CASE path = "missing.dcm" ->
              \* cannot be opened
              [path |-> path, open_ok |-> FALSE,
               open_cause |-> "No such file or directory",
               attributes |-> Ids(Absent, Absent, Absent, Absent),
               elements |-> <<>>, object |-> DecodeErr,
               env |-> EnvOf(FrameErr, DynamicErr)]
         [] path = "report.dcm" ->
              \* opens, holds no pixel data: decode_pixel_data fails
              DicomFile(path,
                  Ids(Attr(<<"P", "1">>), Attr(<<"S", "1">>),
                      Attr(<<"E", "1">>), Attr(<<"I", "1">>)),
                  PatientElements, DecodeErr, EnvOf(FrameErr, DynamicErr))
         [] path = "mono.dcm" ->
              \* a 1 x 2 Monochrome2 frame of 8 bits
              DicomFile(path,
                  Ids(Attr(<<" ", "P", "1", " ">>), Attr(<<"S", "1">>),
                      Attr(<<"E", "1">>), Attr(<<"I", "2">>)),
                  PatientElements,
                  Frame1(1, 2, 8, "Monochrome2", "Standard"),
                  EnvOf(FrameOk(<<64, 255>>), DynamicErr))
         [] path = "rgb.dcm" ->
              \* an interleaved RGB frame whose buffer holds four samples
              DicomFile(path,
                  Ids(Attr(<<"P", "2">>), Attr(<<"S", "1">>),
                      Attr(<<"E", "1">>), Absent),
                  PatientElements,
                  Frame1(1, 1, 8, "Rgb", "Standard"),
                  EnvOf(FrameOk(<<64, 255, 64, 255>>), DynamicErr))
         [] OTHER ->
              \* "ybr.dcm": an interpretation the decoder cannot render either
              DicomFile(path,
                  Ids(Absent, Attr(<<" ">>), Attr(<<"E", "2">>),
                      Attr(<<"I", "3">>)),
                  PatientElements,
                  Frame1(1, 1, 8, "YbrFull", "Standard"),
                  EnvOf(FrameErr, DynamicErr))]

(***************************************************************************)
(* State.  object, frame_idx, call and result are one call of the          *)
(* pipeline; the others are the fields of App (app.rs) and the FilesLoaded *)
(* messages in flight.                                                     *)
(***************************************************************************)
VARIABLES object, frame_idx, call, result, normalized,
          entries, selected_instance, collapsed_nodes, tree_view_mode,
          last_error, pending, picked, column

pipeline_vars == <<object, frame_idx, call, result, normalized>>
app_vars == <<entries, selected_instance, collapsed_nodes, tree_view_mode,
              last_error, pending, picked>>
view_vars == <<column>>
vars == <<object, frame_idx, call, result, normalized,
          entries, selected_instance, collapsed_nodes, tree_view_mode,
          last_error, pending, picked, column>>

NoResult == ErrText(<<>>, "none", NoSamples)

\* Option<usize>, Option<String>
None == [some |-> FALSE, index |-> 0]
Some(index) == [some |-> TRUE, index |-> index]

\* the tree panel: not drawn, and the rows of a drawn one
NoColumn == [drawn |-> FALSE, rows |-> <<>>]
Drawn(rows) == [drawn |-> TRUE, rows |-> rows]

\* App::default(), with no panel drawn
AppDefault ==
    /\ column = NoColumn
    /\ entries = <<>>
    /\ selected_instance = None
    /\ collapsed_nodes = {}
    /\ tree_view_mode = "FileBrowser"
    /\ last_error = NoText
    /\ pending = EmptyBag
    /\ picked = 0

\* two calls of normalize_u16 with the same min and max: the arguments, and
\* the grays once the calls are made
NormalizeArgs(low, high, min, max) ==
    [low |-> low, high |-> high, min |-> min, max |-> max,
     done |-> FALSE, gray_low |-> 0, gray_high |-> 0]
NoNormalize == NormalizeArgs(0, 0, 0, 0)

PipelineIdle ==
    /\ object = DecodeErr
    /\ frame_idx = 0
    /\ call = "none"
    /\ result = NoResult
    /\ normalized = NoNormalize

(***************************************************************************)
(* The pipeline as a state machine: an object and a frame index are drawn, *)
(* and one call is made on them.                                           *)
(***************************************************************************)
PipelineInit ==
    /\ object \in Objects
    /\ frame_idx \in 0..MaxFrames
    /\ call = "none"
    /\ result = NoResult
    /\ normalized = NoNormalize
    /\ AppDefault

RenderFirstFrame ==
    /\ call = "none"
    /\ \E env \in Envs(object.decoded) :
          result' = render_first_frame(object, env)
    /\ call' = "render_first_frame"
    /\ UNCHANGED <<object, frame_idx, normalized>>
    /\ UNCHANGED <<app_vars, view_vars>>

FrameToHandle ==
    /\ call = "none"
    /\ object.decode_ok
    /\ \E env \in Envs(object.decoded) :
          result' = frame_to_handle(object.decoded, frame_idx, env)
    /\ call' = "frame_to_handle"
    /\ UNCHANGED <<object, frame_idx, normalized>>
    /\ UNCHANGED <<app_vars, view_vars>>

PipelineNext == RenderFirstFrame \/ FrameToHandle

PipelineSpec == PipelineInit /\ [][PipelineNext]_vars

(***************************************************************************)
(* normalize_u16 on its own: a minimum, a maximum and two values are       *)
(* drawn, and the function is applied to both values.                      *)
(***************************************************************************)
\* u16 values: the ends of the type, the frames of the scenarios and their
\* neighbours
NormalizeValues ==
    {0, 1, 999, 1000, 1001, 2000, 3000, 3001, 33084, 33149, 65534, U16Max}

NormalizeInit ==
    /\ \E low, high, min, max \in NormalizeValues :
          /\ low <= high
          /\ normalized = NormalizeArgs(low, high, min, max)
    /\ object = DecodeErr
    /\ frame_idx = 0
    /\ call = "none"
    /\ result = NoResult
    /\ AppDefault

Normalize ==
    /\ ~normalized.done
    /\ normalized' =
          [normalized EXCEPT
              !.done = TRUE,
              !.gray_low = normalize_u16(normalized.low, normalized.min,
                                         normalized.max),
              !.gray_high = normalize_u16(normalized.high, normalized.min,
                                          normalized.max)]
    /\ UNCHANGED <<object, frame_idx, call, result>>
    /\ UNCHANGED <<app_vars, view_vars>>

NormalizeNext == Normalize

NormalizeSpec == NormalizeInit /\ [][NormalizeNext]_vars

(***************************************************************************)
(* model/tree.rs                                                           *)
(***************************************************************************)
TreeViewModes == {"FileBrowser", "UidTree"}
PatientKey(id) == [kind |-> "Patient", patient |-> id, study |-> <<>>, series |-> <<>>]
StudyKey(patient, study) ==
    [kind |-> "Study", patient |-> patient, study |-> study, series |-> <<>>]
SeriesKey(patient, study, series) ==
    [kind |-> "Series", patient |-> patient, study |-> study, series |-> series]
\* the nodes whose toggles are pressed
ToggleKeys == {PatientKey(<<"P", "1">>), StudyKey(<<"P", "1">>, <<"S", "1">>)}

(***************************************************************************)
(* App::update (app.rs)                                                    *)
(***************************************************************************)
\* errors.join("\n")
RECURSIVE join_newline(_)
join_newline(errors) ==
    IF errors = <<>> THEN <<>>
    ELSE IF Len(errors) = 1 THEN errors[1]
    ELSE errors[1] \o <<"\n">> \o join_newline(Tail(errors))

\* the loop over the results: the entries pushed, the selection and the
\* errors collected
RECURSIVE files_loaded_fold(_, _, _)
files_loaded_fold(results, i, acc) ==
    IF i > Len(results) THEN acc
    ELSE files_loaded_fold(results, i + 1,
            IF results[i].ok
            THEN [entries |-> Append(acc.entries, results[i].entry),
                  selected |-> Some(Len(acc.entries)),
                  errors |-> acc.errors]
            ELSE [entries |-> acc.entries,
                  selected |-> acc.selected,
                  errors |-> Append(acc.errors, results[i].err)])

\* Message::PickFiles and the task it starts: the dialog is cancelled (or
\* hands over nothing) or hands over some paths, each is loaded, and the
\* FilesLoaded message with the results is in flight.  What the loads log
\* travels with the message.
PickFiles ==
    /\ \E selection \in SeqsUpTo(Paths, MaxPicked - picked) :
          LET loaded == [i \in DOMAIN selection |-> load_dicom(Files[selection[i]])]
              message == [selection |-> selection,
                          results |-> [i \in DOMAIN selection |->
                                         [ok |-> loaded[i].ok,
                                          entry |-> loaded[i].entry,
                                          err |-> loaded[i].err]],
                          log |-> [i \in DOMAIN selection |-> loaded[i].log]]
          IN  /\ picked + Max2(1, Len(selection)) <= MaxPicked
              /\ picked' = picked + Max2(1, Len(selection))
              /\ pending' = pending (+) SetToBag({message})
    /\ UNCHANGED <<entries, selected_instance, collapsed_nodes, tree_view_mode,
                   last_error>>
    /\ UNCHANGED <<pipeline_vars, view_vars>>

\* files_loaded with the batch taking the place of the entries
files_loaded_replacing(app, results) ==
    LET after == files_loaded_fold(results, 1,
                     [entries |-> <<>>, selected |-> app.selected_instance,
                      errors |-> <<>>])
    IN  IF after.errors = <<>>
        THEN [entries |-> after.entries,
              selected_instance |->
                  IF after.entries = <<>> THEN None ELSE after.selected,
              last_error |-> NoText]
        ELSE [entries |-> after.entries,
              selected_instance |-> after.selected,
              last_error |-> SomeText(join_newline(after.errors))]

\* files_loaded with the selection dropped by a batch that fails as a whole
files_loaded_deselecting(app, results) ==
    LET after == files_loaded_fold(results, 1,
                     [entries |-> app.entries, selected |-> app.selected_instance,
                      errors |-> <<>>])
    IN  IF after.errors = <<>>
        THEN [entries |-> after.entries,
              selected_instance |->
                  IF after.entries = <<>> THEN None ELSE after.selected,
              last_error |-> NoText]
        ELSE [entries |-> after.entries,
              selected_instance |->
                  IF Len(after.entries) = Len(app.entries) THEN None
                  ELSE after.selected,
              last_error |-> SomeText(join_newline(after.errors))]

\* files_loaded with the error text kept by a batch without failure
files_loaded_keeping_error(app, results) ==
    LET after == files_loaded_fold(results, 1,
                     [entries |-> app.entries, selected |-> app.selected_instance,
                      errors |-> <<>>])
    IN  IF after.errors = <<>>
        THEN [entries |-> after.entries,
              selected_instance |->
                  IF after.entries = <<>> THEN None ELSE after.selected,
              last_error |-> app.last_error]
        ELSE [entries |-> after.entries,
              selected_instance |-> after.selected,
              last_error |-> SomeText(join_newline(after.errors))]

\* the arm of update for Message::FilesLoaded(results), as a function of the
\* fields it reads and writes
files_loaded(app, results) ==
    LET after == files_loaded_fold(results, 1,
                     [entries |-> app.entries, selected |-> app.selected_instance,
                      errors |-> <<>>])
    IN  IF after.errors = <<>>
        THEN [entries |-> after.entries,
              selected_instance |->
                  IF after.entries = <<>> THEN None ELSE after.selected,
              last_error |-> NoText]
        ELSE [entries |-> after.entries,
              selected_instance |-> after.selected,
              last_error |-> SomeText(join_newline(after.errors))]

\* the fields of App that FilesLoaded reads and writes
Loaded == [entries |-> entries, selected_instance |-> selected_instance,
           last_error |-> last_error]

\* Message::FilesLoaded(results), for any message in flight
FilesLoaded ==
    /\ \E message \in BagToSet(pending) :
          LET after == files_loaded(Loaded, message.results)
          IN  /\ pending' = pending (-) SetToBag({message})
              /\ entries' = after.entries
              /\ selected_instance' = after.selected_instance
              /\ last_error' = after.last_error
    /\ UNCHANGED <<collapsed_nodes, tree_view_mode, picked>>
    /\ UNCHANGED <<pipeline_vars, view_vars>>

\* self: the fields of App, and an arm of update leaving them as app
Self ==
    [entries |-> entries, selected_instance |-> selected_instance,
     collapsed_nodes |-> collapsed_nodes, tree_view_mode |-> tree_view_mode,
     last_error |-> last_error]
Becomes(app) ==
    /\ entries' = app.entries
    /\ selected_instance' = app.selected_instance
    /\ collapsed_nodes' = app.collapsed_nodes
    /\ tree_view_mode' = app.tree_view_mode
    /\ last_error' = app.last_error

\* select_instance with the bound one past the last entry
select_instance_inclusive(app, index) ==
    IF index <= Len(app.entries)
    THEN [app EXCEPT !.selected_instance = Some(index)]
    ELSE app

\* the arm of update for Message::SelectInstance(index)
select_instance(app, index) ==
    IF index < Len(app.entries)
    THEN [app EXCEPT !.selected_instance = Some(index)]
    ELSE app

\* toggle_node that only ever inserts the key
toggle_node_inserting(app, key) ==
    [app EXCEPT !.collapsed_nodes = @ \cup {key}]

\* the arm of update for Message::ToggleNode(key): remove the key, and
\* insert it if it was not there
toggle_node(app, key) ==
    IF key \in app.collapsed_nodes
    THEN [app EXCEPT !.collapsed_nodes = @ \ {key}]
    ELSE [app EXCEPT !.collapsed_nodes = @ \cup {key}]

\* set_tree_view_mode that expands every node as it switches the view
set_tree_view_mode_expanding(app, mode) ==
    IF app.tree_view_mode # mode
    THEN [app EXCEPT !.tree_view_mode = mode, !.collapsed_nodes = {}]
    ELSE app

\* the arm of update for Message::SetTreeViewMode(mode)
set_tree_view_mode(app, mode) ==
    IF app.tree_view_mode # mode
    THEN [app EXCEPT !.tree_view_mode = mode]
    ELSE app

\* Message::SelectInstance(index)
SelectInstance ==
    /\ \E index \in 0..Len(entries) : Becomes(select_instance(Self, index))
    /\ UNCHANGED <<pending, picked>>
    /\ UNCHANGED <<pipeline_vars, view_vars>>

\* Message::ToggleNode(key)
ToggleNode ==
    /\ \E key \in ToggleKeys : Becomes(toggle_node(Self, key))
    /\ UNCHANGED <<pending, picked>>
    /\ UNCHANGED <<pipeline_vars, view_vars>>

\* Message::SetTreeViewMode(mode)
SetTreeViewMode ==
    /\ \E mode \in TreeViewModes : Becomes(set_tree_view_mode(Self, mode))
    /\ UNCHANGED <<pending, picked>>
    /\ UNCHANGED <<pipeline_vars, view_vars>>

Init == AppDefault /\ PipelineIdle

Next ==
    \/ PickFiles
    \/ FilesLoaded
    \/ SelectInstance
    \/ ToggleNode
    \/ SetTreeViewMode

Spec == Init /\ [][Next]_vars
(***************************************************************************)
(* The tree panel on its own: entries of the catalogue, a collapsed set    *)
(* of their nodes and a selection are drawn, and the panel is built.       *)
(***************************************************************************)
\* u8 of the characters of the identifiers, as str compares them
ByteOf ==
    ("1" :> 49) @@ ("2" :> 50) @@ ("3" :> 51) @@ ("E" :> 69) @@ ("I" :> 73)
    @@ ("P" :> 80) @@ ("S" :> 83) @@ ("U" :> 85) @@ ("k" :> 107)
    @@ ("n" :> 110) @@ ("o" :> 111) @@ ("w" :> 119)

\* Ord for str: bytewise, a proper prefix first
RECURSIVE str_lt(_, _)
str_lt(a, b) ==
    IF b = <<>> THEN FALSE
    ELSE IF a = <<>> THEN TRUE
    ELSE IF Head(a) = Head(b) THEN str_lt(Tail(a), Tail(b))
    ELSE ByteOf[Head(a)] < ByteOf[Head(b)]

\* BTreeMap::into_iter: the keys in ascending order
RECURSIVE into_iter(_)
into_iter(keys) ==
    IF keys = {} THEN <<>>
    ELSE LET first == CHOOSE k \in keys :
                          \A other \in keys \ {k} : str_lt(k, other)
         IN  <<first>> \o into_iter(keys \ {first})

\* Column::push over the rows of the children, in turn
RECURSIVE push_all(_)
push_all(children) ==
    IF children = <<>> THEN <<>>
    ELSE Head(children) \o push_all(Tail(children))

\* a row of the panel: its indent, whether its label carries the closed
\* arrow or the selection mark, and the message of its button
ToggleRow(depth, key, collapsed) ==
    [depth |-> depth, marked |-> collapsed,
     on_press |-> [message |-> "ToggleNode", key |-> key, index |-> 0]]
SelectRow(depth, index, is_selected) ==
    [depth |-> depth, marked |-> is_selected,
     on_press |-> [message |-> "SelectInstance", key |-> PatientKey(<<>>),
                   index |-> index]]

\* grouped[patient][study][series][sop]: the indices pushed, in entry order
sop_indices(es, patient, study, series, sop) ==
    LET grouped_here(k) ==
            /\ es[k + 1].patient_id = patient
            /\ es[k + 1].study_instance_uid = study
            /\ es[k + 1].series_instance_uid = series
            /\ es[k + 1].sop_instance_uid = sop
    IN  SelectSeq([k \in 1..Len(es) |-> k - 1], grouped_here)

build_file_list(es, selected) ==
    [k \in 1..Len(es) |-> SelectRow(0, k - 1, selected = Some(k - 1))]

\* build_uid_tree with a study or series node closed by its UID alone,
\* whichever patient it is under
build_uid_tree_by_uid(es, collapsed, selected) ==
    LET instance_rows(patient, study, series, sop) ==
            LET indices == sop_indices(es, patient, study, series, sop)
            IN  [j \in 1..Len(indices) |->
                    SelectRow(3, indices[j], selected = Some(indices[j]))]
        series_rows(patient, study, series) ==
            LET series_key == SeriesKey(patient, study, series)
                series_collapsed ==
                    \E key \in collapsed :
                        /\ key.kind = "Series"
                        /\ key.study = study
                        /\ key.series = series
                sops == into_iter({es[k].sop_instance_uid : k \in
                            {k \in DOMAIN es :
                                /\ es[k].patient_id = patient
                                /\ es[k].study_instance_uid = study
                                /\ es[k].series_instance_uid = series}})
            IN  <<ToggleRow(2, series_key, series_collapsed)>>
                \o (IF series_collapsed THEN <<>>
                    ELSE push_all([j \in DOMAIN sops |->
                            instance_rows(patient, study, series, sops[j])]))
        study_rows(patient, study) ==
            LET study_key == StudyKey(patient, study)
                study_collapsed ==
                    \E key \in collapsed :
                        key.kind = "Study" /\ key.study = study
                series_map == into_iter({es[k].series_instance_uid : k \in
                                  {k \in DOMAIN es :
                                      /\ es[k].patient_id = patient
                                      /\ es[k].study_instance_uid = study}})
            IN  <<ToggleRow(1, study_key, study_collapsed)>>
                \o (IF study_collapsed THEN <<>>
                    ELSE push_all([j \in DOMAIN series_map |->
                            series_rows(patient, study, series_map[j])]))
        patient_rows(patient) ==
            LET patient_key == PatientKey(patient)
                patient_collapsed == patient_key \in collapsed
                studies == into_iter({es[k].study_instance_uid : k \in
                               {k \in DOMAIN es : es[k].patient_id = patient}})
            IN  <<ToggleRow(0, patient_key, patient_collapsed)>>
                \o (IF patient_collapsed THEN <<>>
                    ELSE push_all([j \in DOMAIN studies |->
                            study_rows(patient, studies[j])]))
        grouped == into_iter({es[k].patient_id : k \in DOMAIN es})
    IN  push_all([j \in DOMAIN grouped |-> patient_rows(grouped[j])])

build_uid_tree(es, collapsed, selected) ==
    LET instance_rows(patient, study, series, sop) ==
            LET indices == sop_indices(es, patient, study, series, sop)
            IN  [j \in 1..Len(indices) |->
                    SelectRow(3, indices[j], selected = Some(indices[j]))]
        series_rows(patient, study, series) ==
            LET series_key == SeriesKey(patient, study, series)
                series_collapsed == series_key \in collapsed
                sops == into_iter({es[k].sop_instance_uid : k \in
                            {k \in DOMAIN es :
                                /\ es[k].patient_id = patient
                                /\ es[k].study_instance_uid = study
                                /\ es[k].series_instance_uid = series}})
            IN  <<ToggleRow(2, series_key, series_collapsed)>>
                \o (IF series_collapsed THEN <<>>
                    ELSE push_all([j \in DOMAIN sops |->
                            instance_rows(patient, study, series, sops[j])]))
        study_rows(patient, study) ==
            LET study_key == StudyKey(patient, study)
                study_collapsed == study_key \in collapsed
                series_map == into_iter({es[k].series_instance_uid : k \in
                                  {k \in DOMAIN es :
                                      /\ es[k].patient_id = patient
                                      /\ es[k].study_instance_uid = study}})
            IN  <<ToggleRow(1, study_key, study_collapsed)>>
                \o (IF study_collapsed THEN <<>>
                    ELSE push_all([j \in DOMAIN series_map |->
                            series_rows(patient, study, series_map[j])]))
        patient_rows(patient) ==
            LET patient_key == PatientKey(patient)
                patient_collapsed == patient_key \in collapsed
                studies == into_iter({es[k].study_instance_uid : k \in
                               {k \in DOMAIN es : es[k].patient_id = patient}})
            IN  <<ToggleRow(0, patient_key, patient_collapsed)>>
                \o (IF patient_collapsed THEN <<>>
                    ELSE push_all([j \in DOMAIN studies |->
                            study_rows(patient, studies[j])]))
        grouped == into_iter({es[k].patient_id : k \in DOMAIN es})
    IN  push_all([j \in DOMAIN grouped |-> patient_rows(grouped[j])])

tree_panel(es, mode, collapsed, selected) ==
    IF es = <<>> THEN <<>>
    ELSE IF mode = "FileBrowser" THEN build_file_list(es, selected)
    ELSE build_uid_tree(es, collapsed, selected)

\* the entries the files of the catalogue load as
CatalogueEntries ==
    {load_dicom(Files[path]).entry : path \in
        {path \in Paths : load_dicom(Files[path]).ok}}

\* the nodes of the tree of the entries: the toggles the panel can offer
NodesOf(es) ==
    UNION {{PatientKey(es[k].patient_id),
            StudyKey(es[k].patient_id, es[k].study_instance_uid),
            SeriesKey(es[k].patient_id, es[k].study_instance_uid,
                      es[k].series_instance_uid)} : k \in DOMAIN es}

TreeInit ==
    /\ entries \in SeqsUpTo(CatalogueEntries, MaxLen)
    /\ collapsed_nodes \in SUBSET NodesOf(entries)
    /\ selected_instance \in
          IF entries = <<>> THEN {None} ELSE {Some(Len(entries) - 1)}
    /\ tree_view_mode \in TreeViewModes
    /\ last_error = NoText
    /\ pending = EmptyBag
    /\ picked = 0
    /\ column = NoColumn
    /\ PipelineIdle

\* App::view, the tree panel of it
TreePanel ==
    /\ ~column.drawn
    /\ column' = Drawn(tree_panel(entries, tree_view_mode, collapsed_nodes,
                                  selected_instance))
    /\ UNCHANGED <<app_vars, pipeline_vars>>

TreeNext == TreePanel

TreeSpec == TreeInit /\ [][TreeNext]_vars

(***************************************************************************)
(* Properties of the pipeline, checked under PipelineSpec                  *)
(***************************************************************************)
decoded_in == object.decoded
Converted == call = "frame_to_handle"
Rendered == call = "render_first_frame"
HasBitmap == result.kind = "Ok" /\ result.some
\* one of the parts of a message, after another of its parts
Names(text, first, second) ==
    \E i, j \in DOMAIN text : i < j /\ text[i] = first /\ text[j] = second

\* C1: a call of frame_to_handle with frame_idx >= the frame count (so also
\* with frame_idx equal to it) ends in an error whose text names the
\* requested index and then the available count; it never yields a bitmap.
C1_FrameOutOfRange ==
    (Converted /\ frame_idx >= decoded_in.number_of_frames)
        => /\ result.kind = "Err"
           /\ Names(result.err, ToString(frame_idx),
                    ToString(decoded_in.number_of_frames))
C1_Witness ==
    /\ Converted
    /\ decoded_in.number_of_frames >= 1
    /\ frame_idx = decoded_in.number_of_frames
    /\ result.kind = "Err"

\* len = 4 * width * height (the product is formed only when it is small)
IsRgbaLength(len, width, height) ==
    width <= len /\ height <= len /\ len = 4 * width * height

\* C2: every bitmap a call of frame_to_handle returns is columns wide, rows
\* high and holds exactly width * height * 4 bytes.
C2_BitmapLength ==
    (Converted /\ HasBitmap)
        => /\ result.width = decoded_in.columns
           /\ result.height = decoded_in.rows
           /\ IsRgbaLength(Len(result.pixels), result.width, result.height)

\* the materialized sample count agrees with the declared layout: rows *
\* columns samples of `components` each
IsDeclaredLength(len, decoded, components) ==
    /\ decoded.rows <= len
    /\ decoded.columns <= len
    /\ len = decoded.rows * decoded.columns * components

\* C3: whenever the samples materialized for a monochrome or RGB frame are
\* not rows * columns (monochrome) or rows * columns * 3 (RGB) in number,
\* the conversion ends in an error.
C3_InconsistentBufferFails ==
    (Converted /\ result.samples.read
        /\ ~IsDeclaredLength(Len(result.samples.buffer), decoded_in,
              IF is_monochrome(decoded_in.photometric_interpretation)
              THEN 1 ELSE 3))
        => result.kind = "Err"

\* C4: a call of frame_to_handle with frame_idx below the frame count enters
\* the monochrome path for Monochrome1 and Monochrome2, else the RGB path for
\* RGB, else the fallback path, and no other.
C4_DispatchOrder ==
    (Converted /\ frame_idx < decoded_in.number_of_frames)
        => result.path =
             (IF decoded_in.photometric_interpretation
                    \in {"Monochrome1", "Monochrome2"}
              THEN "monochrome"
              ELSE IF decoded_in.photometric_interpretation = "Rgb"
              THEN "rgb"
              ELSE "fallback")
C4_Witness ==
    /\ Converted
    /\ frame_idx < decoded_in.number_of_frames
    /\ decoded_in.photometric_interpretation = "Rgb"
    /\ result.path = "rgb"
    /\ HasBitmap

C8_NeverPanics == result.kind # "Panic"

\* C9: a Monochrome2 frame of at most 8 bits allocated comes out with every
\* sample as its own gray level: pixel i is (s_i, s_i, s_i, 255); the samples
\* [0, 64, 128, 255] give [0,0,0,255, 64,64,64,255, 128,128,128,255,
\* 255,255,255,255].
C9_DirectGray ==
    (/\ Converted /\ HasBitmap
     /\ decoded_in.photometric_interpretation = "Monochrome2"
     /\ decoded_in.bits_allocated <= 8)
        => LET s == result.samples.buffer
           IN  /\ result.samples.read
               /\ Len(result.pixels) = 4 * Len(s)
               /\ \A i \in DOMAIN s :
                     SubSeq(result.pixels, 4 * i - 3, 4 * i)
                         = <<s[i], s[i], s[i], 255>>
               /\ (s = <<0, 64, 128, 255>>) =>
                     result.pixels = <<0, 0, 0, 255, 64, 64, 64, 255,
                                       128, 128, 128, 255, 255, 255, 255, 255>>
C9_Witness ==
    /\ Converted /\ HasBitmap
    /\ decoded_in.photometric_interpretation = "Monochrome2"
    /\ decoded_in.bits_allocated <= 8
    /\ result.samples.buffer = <<0, 64, 128, 255>>

RECURSIVE SeqMin(_)
SeqMin(s) == IF Len(s) = 1 THEN s[1] ELSE Min2(s[1], SeqMin(Tail(s)))
RECURSIVE SeqMax(_)
SeqMax(s) == IF Len(s) = 1 THEN s[1] ELSE Max2(s[1], SeqMax(Tail(s)))

\* gray is 255 * (v - min) / (max - min) rounded to an integer: it lies
\* within one half of the exact quotient
IsRoundedScale(gray, v, min, max) ==
    LET error == 2 * (max - min) * gray - 2 * 255 * (v - min)
    IN  gray \in 0..255 /\ error <= max - min /\ -error <= max - min

\* C10: a monochrome frame of more than 8 bits allocated whose samples are
\* not all equal comes out with every sample v as the gray level
\* round(255 * (v - min) / (max - min)), min and max taken over the whole
\* frame (inverted for Monochrome1); the frame [1000, 3000] gives
\* [0,0,0,255, 255,255,255,255].
C10_RescaledGray ==
    (/\ Converted /\ HasBitmap
     /\ is_monochrome(decoded_in.photometric_interpretation)
     /\ decoded_in.bits_allocated > 8
     /\ result.samples.buffer # <<>>
     /\ SeqMax(result.samples.buffer) > SeqMin(result.samples.buffer))
        => LET s == result.samples.buffer
               invert == decoded_in.photometric_interpretation = "Monochrome1"
           IN  \A i \in DOMAIN s :
                  IsRoundedScale(
                      IF invert THEN 255 - result.pixels[4 * i - 3]
                      ELSE result.pixels[4 * i - 3],
                      s[i], SeqMin(s), SeqMax(s))

\* every pixel of pixels is the given one
IsFlat(pixels, n, pixel) ==
    /\ Len(pixels) = 4 * n
    /\ \A i \in 1..n : SubSeq(pixels, 4 * i - 3, 4 * i) = pixel
\* a monochrome frame of more than 8 bits whose samples are empty or all equal
IsDegenerateMono ==
    /\ Converted /\ HasBitmap
    /\ is_monochrome(decoded_in.photometric_interpretation)
    /\ decoded_in.bits_allocated > 8
    /\ result.samples.read
    /\ \A i, j \in DOMAIN result.samples.buffer :
          result.samples.buffer[i] = result.samples.buffer[j]

\* C11 as claimed: a monochrome frame of more than 8 bits whose samples are
\* empty or all equal comes out flat black, R = G = B = 0 in every pixel,
\* under either monochrome interpretation.
C11_DegenerateBlack ==
    IsDegenerateMono
        => IsFlat(result.pixels, Len(result.samples.buffer), <<0, 0, 0, 255>>)

\* C11 as amended: such a frame is rescaled to gray 0 in every sample, and
\* the inversion of Monochrome1 follows: the frame comes out flat black for
\* Monochrome2 and flat white, R = G = B = 255, for Monochrome1.
C11_DegenerateFlat ==
    IsDegenerateMono
        => IsFlat(result.pixels, Len(result.samples.buffer),
                  IF decoded_in.photometric_interpretation = "Monochrome1"
                  THEN <<255, 255, 255, 255>> ELSE <<0, 0, 0, 255>>)
C11_Witness ==
    /\ IsDegenerateMono
    /\ decoded_in.photometric_interpretation = "Monochrome1"
    /\ result.samples.buffer = <<7, 7, 7, 7>>
    /\ result.pixels[1] = 255


\* C12: a monochrome frame comes out with the gray levels of its samples (the
\* samples themselves at 8 bits, the rescaled ones above) under Monochrome2,
\* and with 255 minus those under Monochrome1 and under Monochrome1 only; the
\* 8-bit Monochrome1 samples [0, 64, 128, 255] give [255,255,255,255,
\* 191,191,191,255, 127,127,127,255, 0,0,0,255].
C12_InversionAfterRescaling ==
    (/\ Converted /\ HasBitmap
     /\ is_monochrome(decoded_in.photometric_interpretation))
        => LET s == result.samples.buffer
               out(i) == IF decoded_in.bits_allocated <= 8 THEN s[i]
                         ELSE normalize_u16(s[i], SeqMin(s), SeqMax(s))
               final(i) == IF decoded_in.photometric_interpretation = "Monochrome1"
                           THEN 255 - out(i) ELSE out(i)
           IN  /\ Len(result.pixels) = 4 * Len(s)
               /\ \A i \in DOMAIN s :
                     SubSeq(result.pixels, 4 * i - 3, 4 * i)
                         = <<final(i), final(i), final(i), 255>>
               /\ (/\ s = <<0, 64, 128, 255>>
                   /\ decoded_in.bits_allocated <= 8
                   /\ decoded_in.photometric_interpretation = "Monochrome1")
                     => result.pixels = <<255, 255, 255, 255, 191, 191, 191, 255,
                                          127, 127, 127, 255, 0, 0, 0, 255>>
C12_Witness ==
    /\ Converted /\ HasBitmap
    /\ decoded_in.photometric_interpretation = "Monochrome1"
    /\ decoded_in.bits_allocated <= 8
    /\ result.samples.buffer = <<0, 64, 128, 255>>
    /\ result.pixels[5] = 191

\* x -> 255 - x on the three colour channels of every pixel, alpha kept
InvertColour(pixels) ==
    [i \in DOMAIN pixels |-> IF i % 4 = 0 THEN pixels[i] ELSE 255 - pixels[i]]
\* the same frame set under the other monochrome interpretation
SwapMonochrome(decoded) ==
    [decoded EXCEPT !.photometric_interpretation =
        IF @ = "Monochrome1" THEN "Monochrome2" ELSE "Monochrome1"]
\* a decoder that materializes the given samples
Materializing(samples) ==
    [frame |-> FrameOk(samples), dynamic |-> DynamicErr, overflow_checks |-> FALSE]

IsRgbRead(deep, planar) ==
    /\ Converted
    /\ decoded_in.photometric_interpretation = "Rgb"
    /\ (decoded_in.bits_allocated > 8) = deep
    /\ decoded_in.planar_configuration = planar
    /\ result.path = "rgb"
    /\ result.samples.read

\* C14: the interleaved 8-bit RGB conversion of a buffer whose length is no
\* multiple of 3 ends in an error that tells the length is not divisible by
\* 3: no panic, and no bitmap made of the whole triplets.
C14_InterleavedMalformed ==
    (IsRgbRead(FALSE, "Standard") /\ Len(result.samples.buffer) % 3 # 0)
        => /\ result.kind = "Err"
           /\ Names(result.err, ToString(Len(result.samples.buffer)),
                    " is not divisible by 3")
C14_Witness ==
    /\ IsRgbRead(FALSE, "Standard")
    /\ result.samples.buffer = <<0, 64, 128, 255>>
    /\ result.kind = "Err"

\* C15: the interleaved 8-bit RGB conversion of a buffer of 3n samples gives
\* n pixels, pixel i being the i-th triplet as it stands followed by 255;
\* [10,20,30, 40,50,60] gives [10,20,30,255, 40,50,60,255].
C15_InterleavedDirect ==
    (IsRgbRead(FALSE, "Standard") /\ Len(result.samples.buffer) % 3 = 0)
        => LET s == result.samples.buffer
               n == Len(s) \div 3
           IN  /\ HasBitmap
               /\ Len(result.pixels) = 4 * n
               /\ \A i \in 1..n :
                     SubSeq(result.pixels, 4 * i - 3, 4 * i)
                         = <<s[3 * i - 2], s[3 * i - 1], s[3 * i], 255>>
               /\ (s = <<10, 20, 30, 40, 50, 60>>)
                     => result.pixels = <<10, 20, 30, 255, 40, 50, 60, 255>>
C15_Witness ==
    /\ IsRgbRead(FALSE, "Standard")
    /\ result.samples.buffer = <<10, 20, 30, 40, 50, 60>>
    /\ HasBitmap

\* rows and columns as the 16-bit attributes of a file give them: their
\* product is the pixel count
HasAttributeSize == decoded_in.rows <= U16Max /\ decoded_in.columns <= U16Max

\* C16: the planar 8-bit RGB conversion of a frame of rows * columns pixels
\* fails on a buffer of fewer than 3 * rows * columns samples, and otherwise
\* gives pixel i = (R[i], G[i], B[i], 255), R, G and B being the first, second
\* and third run of rows * columns samples.
C16_PlanarDirect ==
    (IsRgbRead(FALSE, "PixelFirst") /\ HasAttributeSize)
        => LET s == result.samples.buffer
               pixel_count == decoded_in.rows * decoded_in.columns
           IN  IF Len(s) < 3 * pixel_count
               THEN result.kind = "Err"
               ELSE /\ HasBitmap
                    /\ Len(result.pixels) = 4 * pixel_count
                    /\ \A i \in 1..pixel_count :
                          SubSeq(result.pixels, 4 * i - 3, 4 * i)
                              = <<s[i], s[pixel_count + i],
                                  s[2 * pixel_count + i], 255>>
C16_Witness ==
    /\ IsRgbRead(FALSE, "PixelFirst")
    /\ decoded_in.rows = 1 /\ decoded_in.columns = 2
    /\ result.samples.buffer = <<10, 20, 30, 40, 50, 60>>
    /\ result.pixels = <<10, 30, 50, 255, 20, 40, 60, 255>>

\* the colour channel (1, 2, 3) that sample j of an RGB buffer of n pixels
\* belongs to, 0 for a sample beyond the three planes
ChannelOf(j, n, planar) ==
    IF planar = "Standard" THEN ((j - 1) % 3) + 1
    ELSE IF j <= n THEN 1 ELSE IF j <= 2 * n THEN 2 ELSE IF j <= 3 * n THEN 3 ELSE 0
\* the two buffers have the same samples in channel c
AgreeOn(c, s, t, n, planar) ==
    /\ Len(s) = Len(t)
    /\ \A j \in DOMAIN s : ChannelOf(j, n, planar) = c => s[j] = t[j]

\* C17: in the 16-bit RGB conversions, interleaved and planar, two frames
\* with the same samples in a channel come out with the same bytes in that
\* channel, whatever their other samples are.
C17_ChannelIndependence ==
    (/\ Converted /\ HasBitmap
     /\ decoded_in.photometric_interpretation = "Rgb"
     /\ decoded_in.bits_allocated > 8
     /\ result.path = "rgb")
        => LET s == result.samples.buffer
               n == Len(result.pixels) \div 4
               planar == decoded_in.planar_configuration
           IN  \A t \in Buffers16 : \A c \in 1..3 :
                  AgreeOn(c, s, t, n, planar)
                     => LET other == rgb_to_handle(decoded_in, frame_idx,
                                                   Materializing(t))
                        IN  /\ other.kind = "Ok" /\ other.some
                            /\ Len(other.pixels) = 4 * n
                            /\ \A i \in 1..n :
                                  other.pixels[4 * (i - 1) + c]
                                      = result.pixels[4 * (i - 1) + c]

\* a planar 16-bit RGB frame of rows * columns pixels converted from three
\* planes of that length
IsPlanar16OfPlanes ==
    /\ IsRgbRead(TRUE, "PixelFirst")
    /\ HasAttributeSize
    /\ Len(result.samples.buffer) = 3 * decoded_in.rows * decoded_in.columns
\* plane c of a buffer of three planes of n samples
PlaneOf(s, c, n) == SubSeq(s, (c - 1) * n + 1, c * n)

\* C18 as claimed: three planes of equal length whose samples fit 8 bits come
\* out of the planar 16-bit conversion as they come out of the planar 8-bit
\* conversion, pixel i being (R[i], G[i], B[i], 255).
C18_PlanarDepthsIdentical ==
    (IsPlanar16OfPlanes /\ \A j \in DOMAIN result.samples.buffer :
                              result.samples.buffer[j] <= U8Max)
        => LET s == result.samples.buffer
               n == decoded_in.rows * decoded_in.columns
           IN  /\ HasBitmap
               /\ result.pixels = rgb_planar_to_rgba_u8(s, n).rgba
               /\ \A i \in 1..n :
                     SubSeq(result.pixels, 4 * i - 3, 4 * i)
                         = <<s[i], s[n + i], s[2 * n + i], 255>>

\* C18 as amended: the planar 16-bit conversion pairs the planes by index as
\* the planar 8-bit conversion does and gives as many pixels, but pixel i is
\* (R[i], G[i], B[i], 255) with each sample rescaled by the minimum and
\* maximum of its own plane, where the 8-bit conversion copies the samples.
C18_PlanarDepthsPaired ==
    IsPlanar16OfPlanes
        => LET s == result.samples.buffer
               n == decoded_in.rows * decoded_in.columns
               scaled(i, c) == normalize_u16(PlaneOf(s, c, n)[i],
                                             SeqMin(PlaneOf(s, c, n)),
                                             SeqMax(PlaneOf(s, c, n)))
           IN  /\ HasBitmap
               /\ Len(result.pixels) = 4 * n
               /\ \A i \in 1..n :
                     SubSeq(result.pixels, 4 * i - 3, 4 * i)
                         = <<scaled(i, 1), scaled(i, 2), scaled(i, 3), 255>>
               /\ (\A j \in DOMAIN s : s[j] <= U8Max)
                     => LET eight == rgb_planar_to_rgba_u8(s, n)
                        IN  /\ eight.ok
                            /\ Len(eight.rgba) = Len(result.pixels)
                            /\ \A i \in 1..n :
                                  SubSeq(eight.rgba, 4 * i - 3, 4 * i)
                                      = <<s[i], s[n + i], s[2 * n + i], 255>>
C18_Witness ==
    /\ IsPlanar16OfPlanes
    /\ decoded_in.rows = 1 /\ decoded_in.columns = 2
    /\ result.samples.buffer = <<10, 20, 30, 40, 50, 60>>
    /\ result.pixels = <<0, 0, 0, 255, 255, 255, 255, 255>>

\* C20: with max > min, normalize_u16 does not decrease as its value grows,
\* over values below min and above max as well; it is 0 at min, 255 at max,
\* and never outside 0..255.
C20_NormalizeMonotonic ==
    (normalized.done /\ normalized.max > normalized.min)
        => /\ normalized.gray_low <= normalized.gray_high
           /\ normalized.gray_low \in 0..255
           /\ normalized.gray_high \in 0..255
           /\ normalized.low = normalized.min => normalized.gray_low = 0
           /\ normalized.high = normalized.min => normalized.gray_high = 0
           /\ normalized.low = normalized.max => normalized.gray_low = 255
           /\ normalized.high = normalized.max => normalized.gray_high = 255
C20_Witness ==
    /\ normalized.done
    /\ normalized.low < normalized.min
    /\ normalized.min < normalized.max
    /\ normalized.max < normalized.high
    /\ normalized.gray_low = 0
    /\ normalized.gray_high = 255

\* C21: with max <= min, normalize_u16 is 0 for every value; so it is for
\* (min, max) = (0, 0), which stands for an empty sequence, and for
\* (65535, 0), the accumulators of the interleaved 16-bit conversion before
\* any sample is seen.
C21_NormalizeDegenerate ==
    (normalized.done /\ normalized.max <= normalized.min)
        => normalized.gray_low = 0 /\ normalized.gray_high = 0
C21_Witness ==
    /\ normalized.done
    /\ normalized.min = 65535 /\ normalized.max = 0
    /\ normalized.low = 1000 /\ normalized.high = 65535
    /\ normalized.gray_low = 0 /\ normalized.gray_high = 0

\* the pixel data of an interleaved buffer of n pixels laid out in planes, and
\* the pixel data of three planes of n samples laid out in triplets
ToPlanes(s, n) ==
    [j \in 1..(3 * n) |-> s[3 * ((j - 1) % n) + ((j - 1) \div n) + 1]]
ToTriplets(s, n) ==
    [j \in 1..(3 * n) |-> s[((j - 1) % 3) * n + ((j - 1) \div 3) + 1]]

\* C22: the interleaved 16-bit conversion of n pixels given as triplets and
\* the planar 16-bit conversion of the same n pixels given as planes, with
\* pixel count n, return the same RGBA bytes; also for no pixel at all and
\* for constant channels.
C22_LayoutsAgree ==
    /\ (IsRgbRead(TRUE, "Standard") /\ HasBitmap)
          => LET s == result.samples.buffer
                 n == Len(s) \div 3
                 planar == rgb_planar_u16_to_rgba(
                               IF n = 0 THEN <<>> ELSE ToPlanes(s, n), n)
             IN  planar.ok /\ planar.rgba = result.pixels
    /\ IsPlanar16OfPlanes
          => LET s == result.samples.buffer
                 n == Len(s) \div 3
                 interleaved == rgb_interleaved_u16_to_rgba(ToTriplets(s, n))
             IN  /\ HasBitmap
                 /\ interleaved.ok /\ interleaved.rgba = result.pixels
C22_Witness ==
    /\ IsRgbRead(TRUE, "Standard")
    /\ result.samples.buffer = <<10, 20, 30, 40, 50, 60>>
    /\ result.pixels = <<0, 0, 0, 255, 255, 255, 255, 255>>
    /\ ToPlanes(result.samples.buffer, 2) = <<10, 40, 20, 50, 30, 60>>

(***************************************************************************)
(* Properties of loading, checked under Spec                               *)
(***************************************************************************)
RenderOf(file) == render_first_frame(file.object, file.env)
\* the file opens and decode_pixel_data fails on it
DecodeFails(file) == file.open_ok /\ ~file.object.decode_ok
\* the file opens and decodes, and the conversion of its first frame fails
PreviewFails(file) ==
    file.open_ok /\ file.object.decode_ok /\ RenderOf(file).kind = "Err"
\* part occurs in text
Occurs(part, text) ==
    \E i \in 0..(Len(text) - Len(part)) : SubSeq(text, i + 1, i + Len(part)) = part
\* the loads in flight: a message and a position of its selection
InFlight == {<<m, i>> : m \in BagToSet(pending), i \in 1..MaxPicked}
Loads == {l \in InFlight : l[2] \in DOMAIN l[1].selection}
FileOfLoad(l) == Files[l[1].selection[l[2]]]
ResultOfLoad(l) == l[1].results[l[2]]
LogOfLoad(l) == l[1].log[l[2]]
FileOfEntry(entry) == Files[entry.view.file_path]
WarnsPreview(log, file) ==
    \E k \in DOMAIN log :
        /\ log[k].level = "warn"
        /\ log[k].text = <<"Unable to build frame preview: ">> \o RenderOf(file).err

\* C6 as claimed: a file whose pixel data cannot be decoded yields an error
\* of load_dicom carrying the failure text, and no entry of the application
\* is an entry for such a file.
C6_DecodeFailureAborts ==
    /\ \A l \in Loads :
          DecodeFails(FileOfLoad(l))
             => /\ ~ResultOfLoad(l).ok
                /\ Occurs(RenderOf(FileOfLoad(l)).err, ResultOfLoad(l).err)
    /\ \A i \in DOMAIN entries : ~DecodeFails(FileOfEntry(entries[i]))

\* C6 as amended: a file whose pixel data cannot be decoded is loaded all the
\* same: load_dicom logs the failure as a warning and yields an entry without
\* image, the entry joins the entries, the failure text is no part of
\* last_error, and only a file that cannot be opened yields an error.
C6_DecodeFailureDowngraded ==
    /\ \A l \in Loads :
          /\ ResultOfLoad(l).ok = FileOfLoad(l).open_ok
          /\ DecodeFails(FileOfLoad(l))
                => /\ ~ResultOfLoad(l).entry.view.image.some
                   /\ WarnsPreview(LogOfLoad(l), FileOfLoad(l))
    /\ \A i \in DOMAIN entries :
          DecodeFails(FileOfEntry(entries[i])) => ~entries[i].view.image.some
    /\ last_error.some
          => ~Occurs(<<"Failed to decode pixel data: ">>, last_error.text)
\* an import of an unopenable file and an undecodable one was delivered: the
\* second is an entry, the first is the error shown
C6_Witness ==
    /\ \E i \in DOMAIN entries : DecodeFails(FileOfEntry(entries[i]))
    /\ last_error.some
    /\ Occurs(OpenFailure(Files["missing.dcm"]), last_error.text)

IsTrimmed(id) == id # <<>> /\ ~IsSpace(id[1]) /\ ~IsSpace(id[Len(id)])
\* the entry of a file: its path, one metadata row per element, and the
\* four identifiers, each the trimmed attribute or Unknown
IsPopulated(entry, file) ==
    /\ entry.view.file_path = file.path
    /\ Len(entry.view.metadata) = Len(file.elements)
    /\ \A k \in DOMAIN entry.view.metadata : Len(entry.view.metadata[k].tag) = 9
    /\ \A id \in {entry.patient_id, entry.study_instance_uid,
                  entry.series_instance_uid, entry.sop_instance_uid} :
          IsTrimmed(id)
    /\ ~file.attributes["PatientID"].some => entry.patient_id = Unknown
    /\ ~file.attributes["SOPInstanceUID"].some => entry.sop_instance_uid = Unknown

\* C7: a file that opens and decodes and whose first frame the pipeline
\* cannot convert still yields Ok from load_dicom, with an entry without
\* image whose metadata and identifiers are populated; the failure is logged
\* as a warning, never as an error, and is no part of last_error.
C7_PreviewFailureDowngraded ==
    /\ \A l \in Loads :
          PreviewFails(FileOfLoad(l))
             => /\ ResultOfLoad(l).ok
                /\ ~ResultOfLoad(l).entry.view.image.some
                /\ IsPopulated(ResultOfLoad(l).entry, FileOfLoad(l))
                /\ WarnsPreview(LogOfLoad(l), FileOfLoad(l))
                /\ \A k \in DOMAIN LogOfLoad(l) : LogOfLoad(l)[k].level # "error"
    /\ \A i \in DOMAIN entries :
          PreviewFails(FileOfEntry(entries[i]))
             => /\ ~entries[i].view.image.some
                /\ IsPopulated(entries[i], FileOfEntry(entries[i]))
    /\ \A path \in Paths :
          (last_error.some /\ PreviewFails(Files[path]))
             => ~Occurs(RenderOf(Files[path]).err, last_error.text)
\* both kinds of failed preview are entries, delivered with a file that
\* could not be opened
C7_Witness ==
    /\ \E i \in DOMAIN entries : entries[i].view.file_path = "rgb.dcm"
    /\ \E i \in DOMAIN entries : entries[i].view.file_path = "ybr.dcm"
    /\ PreviewFails(Files["rgb.dcm"])
    /\ PreviewFails(Files["ybr.dcm"])
    /\ last_error.some

\* C19: whenever two imports are in flight, delivering their two FilesLoaded
\* messages in one order or the other leaves the same entries (at the same
\* indices), the same selected instance and the same error text.
C19_ArrivalOrderIrrelevant ==
    \A first, second \in BagToSet(pending) :
        (first # second \/ CopiesIn(first, pending) >= 2)
            => files_loaded(files_loaded(Loaded, first.results), second.results)
                   = files_loaded(files_loaded(Loaded, second.results), first.results)

(***************************************************************************)
(* Properties of the application state, checked under Spec                 *)
(***************************************************************************)
\* C23: in every reachable state selected_instance is None or an index below
\* the number of entries, and it is None only while there is no entry.
C23_SelectionInRange ==
    /\ selected_instance.some => selected_instance.index < Len(entries)
    /\ ~selected_instance.some => entries = <<>>
\* an earlier entry selected again, with nothing left in flight
C23_Witness ==
    /\ Len(entries) = 3
    /\ selected_instance = Some(1)
    /\ pending = EmptyBag
\* the entries of the successful results of a batch, and the texts of its
\* failures, each in batch order
RECURSIVE Successes(_)
Successes(results) ==
    IF results = <<>> THEN <<>>
    ELSE (IF Head(results).ok THEN <<Head(results).entry>> ELSE <<>>)
            \o Successes(Tail(results))
RECURSIVE Failures(_)
Failures(results) ==
    IF results = <<>> THEN <<>>
    ELSE (IF Head(results).ok THEN <<>> ELSE <<Head(results).err>>)
            \o Failures(Tail(results))
\* the step delivers the FilesLoaded message
Delivers(message) ==
    /\ message \in BagToSet(pending)
    /\ pending' = pending (-) SetToBag({message})
DeliversNone == \A message \in BagToSet(pending) : ~Delivers(message)

\* C24: every step keeps the entries it finds, in their places: the delivery
\* of a FilesLoaded message puts the entries of its successful results after
\* them in batch order, and no other step changes the list; an index keeps
\* denoting its entry.
C24_AppendOnly ==
    [][/\ Len(entries) <= Len(entries')
       /\ \A index \in DOMAIN entries : entries'[index] = entries[index]
       /\ \A message \in BagToSet(pending) :
             Delivers(message)
                => entries' = entries \o Successes(message.results)
       /\ DeliversNone => entries' = entries]_vars
\* two batches delivered, the second a failure followed by a success
C24_Witness ==
    /\ Len(entries) = 2
    /\ entries[1].view.file_path = "rgb.dcm"
    /\ entries[2].view.file_path = "mono.dcm"
    /\ last_error.some
    /\ pending = EmptyBag
\* C25: the delivery of a FilesLoaded message with a successful result
\* selects the entry of its last successful result; the delivery of one
\* without (all failed, or empty after a cancelled dialog) leaves the
\* selection as it was.
C25_SelectionAfterLoad ==
    [][\A message \in BagToSet(pending) :
          Delivers(message)
             => LET loaded == Successes(message.results)
                IN  IF loaded # <<>>
                    THEN /\ selected_instance'
                               = Some(Len(entries) + Len(loaded) - 1)
                         /\ entries'[selected_instance'.index + 1]
                               = loaded[Len(loaded)]
                    ELSE selected_instance' = selected_instance]_vars
\* the first of two entries, selected by hand, stays selected when a batch
\* of one unopenable file is delivered
C25_Witness ==
    /\ Len(entries) = 2
    /\ selected_instance = Some(0)
    /\ last_error = SomeText(OpenFailure(Files["missing.dcm"]))
    /\ picked = MaxPicked
    /\ pending = EmptyBag

\* the texts joined by newlines
RECURSIVE JoinedLines(_)
JoinedLines(texts) ==
    IF Len(texts) = 1 THEN texts[1]
    ELSE JoinedLines(SubSeq(texts, 1, Len(texts) - 1))
            \o <<"\n">> \o texts[Len(texts)]

\* C26: the delivery of a FilesLoaded message with a failure sets last_error
\* to the failures of that message joined by newlines, and of that message
\* only; the delivery of one without failure (an empty one too) clears it;
\* either way the successful results are appended to the entries.
C26_ErrorAfterLoad ==
    [][\A message \in BagToSet(pending) :
          Delivers(message)
             => /\ IF Failures(message.results) # <<>>
                   THEN last_error'
                            = SomeText(JoinedLines(Failures(message.results)))
                   ELSE last_error' = NoText
                /\ entries' = entries \o Successes(message.results)]_vars
\* an error shown and then cleared by the delivery of a batch of one file
\* that loads
C26_Witness ==
    /\ Len(entries) = 1
    /\ ~last_error.some
    /\ picked = 2
    /\ pending = EmptyBag
    /\ collapsed_nodes = {}
\* C27: ToggleNode(key) applied twice gives back the collapsed set it started
\* from; applied once it changes whether key is collapsed and nothing else
\* of the set; and it leaves entries, selected_instance, tree_view_mode and
\* last_error alone, in the arm and in every step that changes the set.
C27_ToggleInvolution ==
    /\ [](\A key \in ToggleKeys :
            LET once == toggle_node(Self, key)
                twice == toggle_node(once, key)
            IN  /\ twice.collapsed_nodes = collapsed_nodes
                /\ (key \in once.collapsed_nodes) # (key \in collapsed_nodes)
                /\ once.collapsed_nodes \ {key} = collapsed_nodes \ {key}
                /\ once = [Self EXCEPT !.collapsed_nodes = once.collapsed_nodes]
                /\ twice = Self)
    /\ [][collapsed_nodes' # collapsed_nodes
            => /\ \E key \in ToggleKeys :
                    /\ (key \in collapsed_nodes') # (key \in collapsed_nodes)
                    /\ collapsed_nodes' \ {key} = collapsed_nodes \ {key}
               /\ UNCHANGED <<entries, selected_instance, tree_view_mode,
                              last_error>>]_vars
\* every node collapsed, with entries, a selection and an error to keep
C27_Witness ==
    /\ collapsed_nodes = ToggleKeys
    /\ Len(entries) = 2
    /\ selected_instance = Some(0)
    /\ last_error.some

\* C28: SelectInstance with an index that is no index of an entry changes
\* nothing of the application; with an index of an entry it changes
\* selected_instance only; SetTreeViewMode changes tree_view_mode only, and a
\* second SetTreeViewMode with the same mode changes nothing.
C28_FrameOfSelectAndMode ==
    /\ [](/\ \A index \in Len(entries)..(Len(entries) + 1) :
                select_instance(Self, index) = Self
          /\ \A index \in 0..(Len(entries) - 1) :
                select_instance(Self, index)
                    = [Self EXCEPT !.selected_instance = Some(index)]
          /\ \A mode \in TreeViewModes :
                LET set == set_tree_view_mode(Self, mode)
                IN  /\ set = [Self EXCEPT !.tree_view_mode = mode]
                    /\ set_tree_view_mode(set, mode) = set)
    /\ [][/\ (tree_view_mode' # tree_view_mode)
               => UNCHANGED <<entries, selected_instance, collapsed_nodes,
                              last_error, pending>>
          /\ (DeliversNone /\ selected_instance' # selected_instance)
               => /\ selected_instance'.some
                  /\ selected_instance'.index < Len(entries)
                  /\ UNCHANGED <<entries, collapsed_nodes, tree_view_mode,
                                 last_error, pending>>]_vars
\* the view switched and an earlier entry selected, with a node collapsed
C28_Witness ==
    /\ tree_view_mode = "UidTree"
    /\ collapsed_nodes # {}
    /\ Len(entries) = 3
    /\ selected_instance = Some(0)

(***************************************************************************)
(* Properties of the tree panel, checked under TreeSpec.                   *)
(***************************************************************************)
\* how many rows of the drawn panel offer the entry index for selection
Offers(index) ==
    Cardinality({k \in DOMAIN column.rows :
                    /\ column.rows[k].on_press.message = "SelectInstance"
                    /\ column.rows[k].on_press.index = index})
\* one of the three nodes above the entry is collapsed
Hidden(entry) ==
    \/ PatientKey(entry.patient_id) \in collapsed_nodes
    \/ StudyKey(entry.patient_id, entry.study_instance_uid) \in collapsed_nodes
    \/ SeriesKey(entry.patient_id, entry.study_instance_uid,
                 entry.series_instance_uid) \in collapsed_nodes
\* a study or series node of another patient, with the UIDs of the entry,
\* is collapsed
HiddenElsewhere(entry) ==
    \E key \in collapsed_nodes :
        /\ key.patient # entry.patient_id
        /\ \/ key = StudyKey(key.patient, entry.study_instance_uid)
           \/ key = SeriesKey(key.patient, entry.study_instance_uid,
                              entry.series_instance_uid)

\* C29: in the UID tree, whatever the entries and the collapsed set, every
\* entry index is offered for selection at most once, and once exactly when
\* none of its patient, patient+study and patient+study+series nodes is
\* collapsed; a collapsed study or series node of another patient with the
\* same UIDs hides nothing of it; and nothing but entry indices is offered.
C29_UidTreeOffers ==
    (column.drawn /\ tree_view_mode = "UidTree")
        => /\ \A index \in 0..(Len(entries) - 1) :
                /\ Offers(index) <= 1
                /\ (Offers(index) = 1) <=> ~Hidden(entries[index + 1])
                /\ (HiddenElsewhere(entries[index + 1])
                        /\ ~Hidden(entries[index + 1]))
                     => Offers(index) = 1
           /\ \A k \in DOMAIN column.rows :
                column.rows[k].on_press.message = "SelectInstance"
                    => column.rows[k].on_press.index < Len(entries)
\* the study of one patient collapsed, and the entry of another patient with
\* the same study and series UIDs offered between two hidden ones
C29_Witness ==
    /\ column.drawn
    /\ tree_view_mode = "UidTree"
    /\ Len(entries) = 3
    /\ entries[1] = entries[3]
    /\ collapsed_nodes = {StudyKey(entries[1].patient_id,
                                   entries[1].study_instance_uid)}
    /\ HiddenElsewhere(entries[2])
    /\ Offers(0) = 0
    /\ Offers(1) = 1
    /\ Offers(2) = 0

====
